---- MODULE Spec2Model ----
(***************************************************************************)
(* The workflow iteration engine: the Iteration Controller                 *)
(* (runWorkflowIteration with its RAG splice), the Loop Driver of the App  *)
(* component (handleRunWorkflow, runWorkflowLoop, plan approval, run from  *)
(* file) and the shared RateLimiter.                                       *)
(*                                                                         *)
(* A WorkflowState is a record.  The fields goal, progress, initialPlan    *)
(* and finalResult* are carried through every operation modelled here by   *)
(* the same object spread that carries runLog and notes, and are left out. *)
(***************************************************************************)
EXTENDS Integers, Sequences, FiniteSets, TLC

\* ------------------------------------------------------------- bounds
\* largest value of the "Max iterations" input that is explored
MaxIter == 2
\* invocations of handleRunWorkflow in one behaviour
MaxRuns == 2
\* concurrent callers of the shared rate limiter
NumCallers == 2
\* clock ticks explored by the rate limiter specification
MaxTicks == 6

\* ---------------------------------------------------------- RAG search
RagQueryKey == "rag_query"
RagResultsKey == "rag_results"

\* String.prototype.toLowerCase on the vocabulary of the model
ToLowerCase(w) ==
    CASE w = "The" -> "the"
      [] w = "HTTPS." -> "https."
      [] w = "Protocol" -> "protocol"
      [] OTHER -> w

RECURSIVE JoinedLength(_)
\* length of the words of a chunk joined by single blanks (the trimmed chunk)
JoinedLength(ws) ==
    IF ws = <<>> THEN 0
    ELSE Len(Head(ws)) + (IF Len(ws) > 1 THEN 1 ELSE 0) + JoinedLength(Tail(ws))

\* filter(p => p.trim().length > 10)
MinChunkLength == 10

KeepChunk(chunk) == JoinedLength(chunk) > MinChunkLength

\* filter(w => w.length > 2)
MinWordLength == 2

QueryWords(query) ==
    { ToLowerCase(query[k]) : k \in { j \in 1..Len(query) : Len(query[j]) > MinWordLength } }

ChunkWords(chunk) == { ToLowerCase(chunk[k]) : k \in 1..Len(chunk) }

Score(chunk, query) == Cardinality(QueryWords(query) \cap ChunkWords(chunk))

RECURSIVE InsertByScore(_, _, _)
\* insert x after every element whose score is >= its own: a stable descending order
InsertByScore(x, sorted, query) ==
    IF sorted = <<>> THEN <<x>>
    ELSE IF Score(Head(sorted), query) >= Score(x, query)
         THEN <<Head(sorted)>> \o InsertByScore(x, Tail(sorted), query)
         ELSE <<x>> \o sorted

\* the scored chunks left in document order
KeepDocumentOrder(chunks, query) == chunks

RECURSIVE SortByScore(_, _)
\* scoredChunks.sort((a, b) => b.score - a.score): a stable sort
SortByScore(chunks, query) ==
    IF chunks = <<>> THEN <<>>
    ELSE InsertByScore(chunks[Len(chunks)],
                       SortByScore(SubSeq(chunks, 1, Len(chunks) - 1), query), query)

\* slice(0, 3)
TopChunks == 3

NoQueryOrContent == "No query or content provided for search."
QueryTooGeneric == "Query is too generic. Please provide more specific keywords."
NoRelevantInformation == "No relevant information found in the document for your query."

\* An artifact value is a string; it is modelled as a record: text, the words of the
\* string, and snippets, the chunks a search result quotes after its preamble
Value(words) == [text |-> words, snippets |-> <<>>]

\* _executeRAG: content is the sequence of the blank-line separated chunks, each a
\* sequence of whitespace separated words; query is a sequence of words
ExecuteRAG(query, content) ==
    IF query = <<>> \/ content = <<>> THEN Value(<<NoQueryOrContent>>)
    ELSE LET chunks == SelectSeq(content, KeepChunk)
             scored == SelectSeq(chunks, LAMBDA c : Score(c, query) > 0)
             sorted == SortByScore(scored, query)
             top == SubSeq(sorted, 1, IF Len(sorted) < TopChunks THEN Len(sorted) ELSE TopChunks)
         IN  IF QueryWords(query) = {} THEN Value(<<QueryTooGeneric>>)
             ELSE IF top = <<>> THEN Value(<<NoRelevantInformation>>)
             ELSE [text |-> <<"Here are the most relevant snippets from the document:">>,
                   snippets |-> top]

\* ------------------------------------------------- Iteration Controller
\* notes is a string; it is modelled as a record: the fixed text and, for the
\* templated message, the query the text quotes
Note(text) == [text |-> text, query |-> <<>>]

SearchDoneNote(query) ==
    [text |-> "I have completed the requested search for \"${query}\". The results are now available in the 'rag_results' artifact. Please review them and continue with your task.",
     query |-> query]

NoDocumentNote ==
    Note("You requested a search, but no knowledge document has been provided by the user. Please proceed with the task using your existing knowledge.")

HasKey(artifacts, key) == \E k \in 1..Len(artifacts) : artifacts[k].key = key

\* artifacts.find(a => a.key === 'rag_query'): the first one
FindRagQuery(artifacts) ==
    artifacts[CHOOSE k \in 1..Len(artifacts) :
                 /\ artifacts[k].key = RagQueryKey
                 /\ \A j \in 1..(k - 1) : artifacts[j].key # RagQueryKey]

\* a mutant: only the artifact that was found is removed
RemoveFirstRagQuery(artifacts) ==
    LET k == CHOOSE n \in 1..Len(artifacts) :
                 /\ artifacts[n].key = RagQueryKey
                 /\ \A j \in 1..(n - 1) : artifacts[j].key # RagQueryKey
    IN  SubSeq(artifacts, 1, k - 1) \o SubSeq(artifacts, k + 1, Len(artifacts))

\* artifacts.filter(a => a.key !== 'rag_query')
RemoveRagQuery(artifacts) == SelectSeq(artifacts, LAMBDA a : a.key # RagQueryKey)

\* a mutant: the test of ragContent is left out, the search is always made
RagSpliceSearchesAnyway(newState, rag) ==
    IF ~HasKey(newState.artifacts, RagQueryKey) THEN newState
    ELSE LET query == FindRagQuery(newState.artifacts).value.text
             kept == RemoveRagQuery(newState.artifacts)
         IN  [newState EXCEPT
                 !.artifacts = Append(kept, [key |-> RagResultsKey,
                                             value |-> ExecuteRAG(query, rag)]),
                 !.notes = SearchDoneNote(query)]

\* a mutant: the missing document is reported whether or not a search was asked for
RagSpliceReportsNoDocument(newState, rag) ==
    IF rag = <<>>
    THEN [newState EXCEPT !.artifacts = RemoveRagQuery(newState.artifacts),
                          !.notes = NoDocumentNote]
    ELSE IF ~HasKey(newState.artifacts, RagQueryKey) THEN newState
    ELSE LET query == FindRagQuery(newState.artifacts).value.text
             kept == RemoveRagQuery(newState.artifacts)
         IN  [newState EXCEPT
                 !.artifacts = Append(kept, [key |-> RagResultsKey,
                                             value |-> ExecuteRAG(query, rag)]),
                 !.notes = SearchDoneNote(query)]

\* the post-processing of runWorkflowIteration on the state the adapter decoded;
\* rag is the ragContent argument (<<>> is the empty string: falsy)
RagSplice(newState, rag) ==
    IF ~HasKey(newState.artifacts, RagQueryKey) THEN newState
    ELSE LET query == FindRagQuery(newState.artifacts).value.text
             kept == RemoveRagQuery(newState.artifacts)
         IN  IF rag # <<>>
             THEN [newState EXCEPT
                     !.artifacts = Append(kept, [key |-> RagResultsKey,
                                                 value |-> ExecuteRAG(query, rag)]),
                     !.notes = SearchDoneNote(query)]
             ELSE [newState EXCEPT !.artifacts = kept, !.notes = NoDocumentNote]

\* ------------------------------------------------------ provider replies
Statuses == {"running", "completed", "needs_clarification", "error"}

\* the knowledge document of the RAG integration test, one chunk
KnowledgeDoc ==
    << <<"The", "main", "security", "protocol", "is", "to", "always", "use", "HTTPS.">> >>

\* what the model writes in a turn: the plan, the run log, the artifacts, the notes
\* and the iteration number it reports.  The first is a reply of the planner test,
\* the second a reply that asks for a search again and still carries the results of
\* an earlier search
Payloads ==
    { [steps |-> <<>>,
       runLog |-> <<[iteration |-> 1, agent |-> "Planner"]>>,
       artifacts |-> <<>>,
       notes |-> Note("Planner has created a plan."),
       currentIteration |-> 0],
      [steps |-> <<"Step 1", "Step 2">>,
       runLog |-> <<[iteration |-> 1, agent |-> "Planner"], [iteration |-> 2, agent |-> "Worker"]>>,
       artifacts |-> <<[key |-> RagResultsKey, value |-> Value(<<"earlier", "results">>)],
                       [key |-> RagQueryKey, value |-> Value(<<"search", "for", "Protocol">>)],
                       [key |-> RagQueryKey, value |-> Value(<<"is", "to">>)]>>,
       notes |-> Note("Waiting for RAG results"),
       currentIteration |-> 7] }

\* the maxIterations values a reply may carry: the least and the largest value explored
ReplyMaxIterations == {1, MaxIter}

\* the states a provider adapter can decode from a reply: the reply is the model's
\* text, and nothing in the adapters constrains the values of its fields
Replies ==
    { [maxIterations |-> m, currentIteration |-> p.currentIteration, status |-> st,
       runLog |-> p.runLog, steps |-> p.steps, artifacts |-> p.artifacts, notes |-> p.notes] :
        m \in ReplyMaxIterations, st \in Statuses, p \in Payloads }

\* runWorkflowIteration when the adapter returns: the decoded reply, RAG-spliced
RunWorkflowIteration(reply, rag) == RagSplice(reply, rag)

\* ----------------------------------------------------------- Loop Driver
VARIABLES
    isRunning,           \* React state of App
    workflowState,       \* React state of App: NoState is null
    isAwaitingApproval,  \* React state of App
    ragContent,          \* React state of App: <<>> is ''
    acts,                \* the async activations awaiting runWorkflowIteration, by run
    readerPending,       \* a FileReader of handleRunWorkflowFromStateFile is loading (one is followed)
    runsStarted,         \* invocations of handleRunWorkflow that passed the goal check
    offer,               \* history: the run whose plan was last offered for approval
    wsFromCatch          \* history: the last setWorkflowState was made by a catch block

driverVars == <<isRunning, workflowState, isAwaitingApproval, ragContent, acts,
                readerPending, runsStarted, offer, wsFromCatch>>

VARIABLES
    clock,         \* Date.now()
    lastCallTime,  \* RateLimiter.lastCallTime
    waiters,       \* per caller of waitIfNeeded: its position and the time its timer is due
    prevReturn,    \* history: when the last but one waitIfNeeded() returned
    lastReturn     \* history: when the last waitIfNeeded() returned

rlVars == <<clock, lastCallTime, waiters, prevReturn, lastReturn>>

VARIABLES
    googleKey,   \* process.env.GOOGLE_API_KEY is set
    call,        \* the arguments of the runWorkflowIteration invocation that is followed
    cpc,         \* its position
    adapters,    \* history: the adapter functions it entered, in order
    outbound,    \* history: the outbound provider calls it made
    built,       \* history: what building the prompt produced
    decoded,     \* history: the state the adapter decoded from the reply
    replyText,   \* history: the text of the message-API reply the adapter searched
    outcome      \* what the invocation returned or threw

ctlVars == <<googleKey, call, cpc, adapters, outbound, built, decoded, replyText, outcome>>

VARIABLES
    test         \* the testProviderConnection invocation that is followed

testVars == <<test>>

\* the variables a Loop Driver, RateLimiter or Iteration Controller action leaves alone
notDriverVars == <<rlVars, ctlVars, testVars>>
notRLVars == <<driverVars, ctlVars, testVars>>
notCtlVars == <<driverVars, rlVars, testVars>>
notTestVars == <<driverVars, rlVars, ctlVars>>

NoState == [status |-> "null"]
NoAct == [kind |-> "none"]
NoOffer == [run |-> 0]

Runs == 1..MaxRuns

\* the initialState literal of handleRunWorkflow
InitialState(effectiveMaxIterations) ==
    [maxIterations |-> effectiveMaxIterations, currentIteration |-> 0, status |-> "running",
     runLog |-> <<>>, steps |-> <<>>, artifacts |-> <<>>,
     notes |-> Note("Initial state. Planner needs to create steps.")]

\* { ...newState, currentIteration: i }
Adopt(newState, i) == [newState EXCEPT !.currentIteration = i]

\* { ...currentState, status: 'error' } of runWorkflowLoop's catch
LoopErrorState(currentState) == [currentState EXCEPT !.status = "error"]

\* { ...initialState, status: 'error', currentIteration: 1 } of the planning catch
PlanErrorState(initialState) == [initialState EXCEPT !.status = "error", !.currentIteration = 1]

IsTerminal(status) == status = "completed" \/ status = "needs_clarification"

\* the loop condition of runWorkflowLoop: i <= currentState.maxIterations
LoopContinues(i, currentState) == i <= currentState.maxIterations

\* PlanApprovalModal is rendered; like every modal of the application it covers the page
ModalOpen == isAwaitingApproval /\ workflowState # NoState

\* an activation: kind is "loop" (runWorkflowLoop) or "plan" (the planning turn of
\* human-guided mode); cur is the local currentState (initialState for a plan) and i
\* the loop index of the call in flight: the call is the i-th of its run, after i - 1
\* turns that returned.  The other fields are history of the run: created, the
\* maxIterations the run was created with; terminalSeen, a turn returned a terminal
\* status; prevOut, the state the previous turn returned.
NewAct(kind, cur, i, created, terminalSeen, prevOut) ==
    [kind |-> kind, cur |-> cur, i |-> i, created |-> created,
     terminalSeen |-> terminalSeen, prevOut |-> prevOut]

Alive(r) == acts[r] # NoAct

DriverInit ==
    /\ isRunning = FALSE
    /\ workflowState = NoState
    /\ isAwaitingApproval = FALSE
    /\ ragContent \in {<<>>, KnowledgeDoc}
    /\ acts = [r \in Runs |-> NoAct]
    /\ readerPending = FALSE
    /\ runsStarted = 0
    /\ offer = NoOffer
    /\ wsFromCatch = FALSE

\* handleRunWorkflow up to its first await; the goal is not blank (the Run button is
\* disabled on a blank goal, the file handler rejects one).  guidanceMode is the
\* value the mode selector had when the handler's closure was made.
HandleRunWorkflow(guidanceMode, effectiveMaxIterations) ==
    LET run == runsStarted + 1
        initialState == InitialState(effectiveMaxIterations)
    IN  /\ runsStarted < MaxRuns
        /\ runsStarted' = run
        /\ workflowState' = initialState
        /\ wsFromCatch' = FALSE
        /\ IF guidanceMode = "auto" /\ ~LoopContinues(1, initialState)
           THEN /\ isRunning' = FALSE
                /\ acts' = acts
           ELSE /\ isRunning' = TRUE
                /\ acts' = [acts EXCEPT ![run] =
                      NewAct(IF guidanceMode = "auto" THEN "loop" ELSE "plan", initialState, 1,
                             effectiveMaxIterations, FALSE, NoState)]
        /\ UNCHANGED <<isAwaitingApproval, ragContent, offer>>

\* the Run button: disabled while isRunning
RunClick(guidanceMode, maxIterations) ==
    /\ ~isRunning
    /\ ~ModalOpen
    /\ HandleRunWorkflow(guidanceMode, maxIterations)
    /\ UNCHANGED readerPending
    /\ UNCHANGED notDriverVars

\* the Run from File button (disabled while isRunning) and the choice of a file:
\* handleRunWorkflowFromStateFile starts reading it
PickFile ==
    /\ ~isRunning
    /\ ~ModalOpen
    /\ ~readerPending
    /\ runsStarted < MaxRuns
    /\ readerPending' = TRUE
    /\ UNCHANGED <<isRunning, workflowState, isAwaitingApproval, ragContent, acts,
                   runsStarted, offer, wsFromCatch>>
    /\ UNCHANGED notDriverVars

\* reader.onload with a file that holds a goal: handleRunWorkflow is called with it,
\* and with the file's maxIterations or, when the file has none, the input's
ReaderLoad(guidanceMode, maxIterations) ==
    /\ readerPending
    /\ readerPending' = FALSE
    /\ HandleRunWorkflow(guidanceMode, maxIterations)
    /\ UNCHANGED notDriverVars

\* reader.onload with a file that is no JSON or holds no goal: only the error is set
ReaderLoadInvalid ==
    /\ readerPending
    /\ readerPending' = FALSE
    /\ UNCHANGED <<isRunning, workflowState, isAwaitingApproval, ragContent, acts,
                   runsStarted, offer, wsFromCatch>>
    /\ UNCHANGED notDriverVars

\* runWorkflowLoop: the awaited runWorkflowIteration returns
LoopTurnReturns(r, reply) ==
    /\ Alive(r) /\ acts[r].kind = "loop"
    /\ LET a == acts[r]
           newState == RunWorkflowIteration(reply, ragContent)
           currentState == Adopt(newState, a.i)
           stops == IsTerminal(currentState.status) \/ ~LoopContinues(a.i + 1, currentState)
       IN  /\ workflowState' = currentState
           /\ wsFromCatch' = FALSE
           /\ IF stops
              THEN /\ acts' = [acts EXCEPT ![r] = NoAct]
                   /\ isRunning' = FALSE
              ELSE /\ acts' = [acts EXCEPT ![r] =
                         NewAct("loop", currentState, a.i + 1, a.created,
                                a.terminalSeen \/ IsTerminal(newState.status), newState)]
                   /\ isRunning' = isRunning
    /\ UNCHANGED <<isAwaitingApproval, ragContent, readerPending, runsStarted, offer>>
    /\ UNCHANGED notDriverVars

\* runWorkflowLoop: the awaited runWorkflowIteration throws
LoopTurnThrows(r) ==
    /\ Alive(r) /\ acts[r].kind = "loop"
    /\ workflowState' = LoopErrorState(acts[r].cur)
    /\ wsFromCatch' = TRUE
    /\ acts' = [acts EXCEPT ![r] = NoAct]
    /\ isRunning' = FALSE
    /\ UNCHANGED <<isAwaitingApproval, ragContent, readerPending, runsStarted, offer>>
    /\ UNCHANGED notDriverVars

\* handleRunWorkflow, human-guided: the awaited planning turn returns
PlanTurnReturns(r, reply) ==
    /\ Alive(r) /\ acts[r].kind = "plan"
    /\ LET a == acts[r]
           newState == RunWorkflowIteration(reply, ragContent)
           plannerState == Adopt(newState, 1)
       IN  /\ workflowState' = plannerState
           /\ IF Len(plannerState.steps) > 0
              THEN /\ isAwaitingApproval' = TRUE
                   /\ offer' = [run |-> r, created |-> a.created,
                                terminalSeen |-> IsTerminal(newState.status),
                                planOut |-> newState]
              ELSE UNCHANGED <<isAwaitingApproval, offer>>
    /\ wsFromCatch' = FALSE
    /\ acts' = [acts EXCEPT ![r] = NoAct]
    /\ isRunning' = FALSE
    /\ UNCHANGED <<ragContent, readerPending, runsStarted>>
    /\ UNCHANGED notDriverVars

\* handleRunWorkflow, human-guided: the awaited planning turn throws
PlanTurnThrows(r) ==
    /\ Alive(r) /\ acts[r].kind = "plan"
    /\ workflowState' = PlanErrorState(acts[r].cur)
    /\ wsFromCatch' = TRUE
    /\ acts' = [acts EXCEPT ![r] = NoAct]
    /\ isRunning' = FALSE
    /\ UNCHANGED <<isAwaitingApproval, ragContent, readerPending, runsStarted, offer>>
    /\ UNCHANGED notDriverVars

\* handlePlanApproval: runWorkflowLoop(workflowState, 2) up to its first await
HandlePlanApproval ==
    /\ ModalOpen
    /\ isAwaitingApproval' = FALSE
    /\ IF LoopContinues(2, workflowState)
       THEN /\ acts' = [acts EXCEPT ![offer.run] =
                  NewAct("loop", workflowState, 2, offer.created, offer.terminalSeen,
                         offer.planOut)]
            /\ isRunning' = TRUE
       ELSE /\ acts' = acts
            /\ isRunning' = FALSE
    /\ offer' = NoOffer
    /\ UNCHANGED <<workflowState, ragContent, readerPending, runsStarted, wsFromCatch>>
    /\ UNCHANGED notDriverVars

\* handlePlanRejection
HandlePlanRejection ==
    /\ ModalOpen
    /\ isAwaitingApproval' = FALSE
    /\ offer' = NoOffer
    /\ UNCHANGED <<isRunning, workflowState, ragContent, acts, readerPending, runsStarted,
                   wsFromCatch>>
    /\ UNCHANGED notDriverVars

GuidanceModes == {"auto", "human"}

DriverNext ==
    \/ \E g \in GuidanceModes, m \in 1..MaxIter : RunClick(g, m)
    \/ PickFile
    \/ \E g \in GuidanceModes, m \in 1..MaxIter : ReaderLoad(g, m)
    \/ ReaderLoadInvalid
    \/ \E r \in Runs, reply \in Replies : LoopTurnReturns(r, reply)
    \/ \E r \in Runs : LoopTurnThrows(r)
    \/ \E r \in Runs, reply \in Replies : PlanTurnReturns(r, reply)
    \/ \E r \in Runs : PlanTurnThrows(r)
    \/ HandlePlanApproval
    \/ HandlePlanRejection

\* ---------------------------------------------------------- RateLimiter
\* new RateLimiter(12), the limiter of the Google adapter
requestsPerMinute == 12

\* Math.ceil(60 * 1000 / requestsPerMinute * 1.1); for 12 requests per minute the
\* double arithmetic is exact and gives 5500
minDelayMs ==
    LET num == 60 * 1000 * 11
        den == requestsPerMinute * 10
    IN  (num + den - 1) \div den

\* the clock advances by half the minimum delay
TickMs == minDelayMs \div 2

\* Date.now() when the first request arrives: far more than minDelayMs after 0
StartClock == 2 * minDelayMs

Callers == 1..NumCallers

NoReturn == 0 - 1

Outside == [pc |-> "outside", due |-> 0]

RLInit ==
    /\ clock = StartClock
    /\ lastCallTime = 0
    /\ waiters = [c \in Callers |-> Outside]
    /\ prevReturn = NoReturn
    /\ lastReturn = NoReturn

Tick ==
    /\ clock < StartClock + MaxTicks * TickMs
    /\ clock' = clock + TickMs
    /\ UNCHANGED <<lastCallTime, waiters, prevReturn, lastReturn>>
    /\ UNCHANGED notRLVars

\* a mutant: the exit does not record the time
ReturnWithoutRecord(c) ==
    /\ lastCallTime' = lastCallTime
    /\ waiters' = [waiters EXCEPT ![c] = Outside]
    /\ prevReturn' = lastReturn
    /\ lastReturn' = clock

\* the exit of waitIfNeeded: this.lastCallTime = Date.now(), and the caller goes on
Return(c) ==
    /\ lastCallTime' = clock
    /\ waiters' = [waiters EXCEPT ![c] = Outside]
    /\ prevReturn' = lastReturn
    /\ lastReturn' = clock

\* a mutant: the wait is left out, every call returns at once
WaitIfNeededNoWait(c) ==
    /\ waiters[c].pc = "outside"
    /\ Return(c)
    /\ UNCHANGED clock
    /\ UNCHANGED notRLVars

\* waitIfNeeded up to its await (or, when no wait is needed, to its end)
WaitIfNeeded(c) ==
    /\ waiters[c].pc = "outside"
    /\ LET now == clock
           timeSinceLastCall == now - lastCallTime
       IN  IF timeSinceLastCall < minDelayMs
           THEN /\ waiters' = [waiters EXCEPT ![c] =
                      [pc |-> "delay", due |-> now + (minDelayMs - timeSinceLastCall)]]
                /\ UNCHANGED <<lastCallTime, prevReturn, lastReturn>>
           ELSE Return(c)
    /\ UNCHANGED clock
    /\ UNCHANGED notRLVars

\* the timer of delay(waitTime) fires, not before it is due, and waitIfNeeded ends
DelayElapsed(c) ==
    /\ waiters[c].pc = "delay"
    /\ clock >= waiters[c].due
    /\ Return(c)
    /\ UNCHANGED clock
    /\ UNCHANGED notRLVars

\* reset(): a fresh session, of which the returns before it are no part
Reset ==
    /\ lastCallTime' = 0
    /\ prevReturn' = NoReturn
    /\ lastReturn' = NoReturn
    /\ UNCHANGED <<clock, waiters>>
    /\ UNCHANGED notRLVars

RLNext ==
    \/ Tick
    \/ \E c \in Callers : WaitIfNeeded(c)
    \/ \E c \in Callers : DelayElapsed(c)
    \/ Reset

\* a sequential caller: it calls waitIfNeeded() when no other call of it is pending
SeqWaitIfNeeded(c) ==
    /\ \A d \in Callers : waiters[d].pc = "outside"
    /\ WaitIfNeeded(c)

RLSeqNext ==
    \/ Tick
    \/ \E c \in Callers : SeqWaitIfNeeded(c)
    \/ \E c \in Callers : DelayElapsed(c)
    \/ Reset

\* ------------------------------------------------------- Prompt Builder
MAX_LOG_ENTRIES == 10

\* the longest run log explored
MaxLogLen == 15

\* the output fields that prepareStateForPrompt deletes
OutputFields == {"finalResultMarkdown", "finalResultSummary", "resultType"}

\* a mutant: slice(0, MAX_LOG_ENTRIES), the oldest entries are kept
TruncateFromStart(runLog) ==
    IF Len(runLog) > MAX_LOG_ENTRIES THEN SubSeq(runLog, 1, MAX_LOG_ENTRIES) ELSE runLog

\* if (runLog.length > MAX_LOG_ENTRIES) runLog = runLog.slice(-MAX_LOG_ENTRIES)
Truncate(runLog) ==
    IF Len(runLog) > MAX_LOG_ENTRIES
    THEN SubSeq(runLog, Len(runLog) - MAX_LOG_ENTRIES + 1, Len(runLog))
    ELSE runLog

\* prepareStateForPrompt: state is the argument as it is after the call (the function
\* works on a deep copy), stateForPrompt the pruned copy it returns
PrepareStateForPrompt(state) ==
    [state |-> state,
     stateForPrompt |->
         [k \in DOMAIN state \ OutputFields |->
             IF k = "runLog" THEN Truncate(state.runLog) ELSE state[k]]]

\* currentIteration % 5 === 0
ReminderEvery == 5

\* initialPlan is an optional field: initialPlan && initialPlan.length > 0
HasInitialPlan(state) == "initialPlan" \in DOMAIN state /\ Len(state.initialPlan) > 0

\* getSystemPrompt: the prompt starts with the context-reminder block
ContextReminder(currentState) ==
    /\ currentState.currentIteration > 0
    /\ currentState.currentIteration % ReminderEvery = 0
    /\ HasInitialPlan(currentState)

\* the JSON a request embeds: getSystemPrompt embeds the pruned copy; the Claude
\* adapter keeps the part of that prompt before '**Current State:**' and embeds
\* currentState itself in its own user prompt
BuildPrompt(adapter, currentState) ==
    LET p == PrepareStateForPrompt(currentState)
    IN  [state |-> p.state,
         stateForPrompt |-> p.stateForPrompt,
         sent |-> IF adapter = "_runClaudeWorkflow" THEN p.state ELSE p.stateForPrompt]

\* ------------------------------------- Iteration Controller: one invocation
Providers ==
    {"google", "ollama", "openai", "claude", "openrouter", "groq", "samba", "cerberus",
     "mistral"}

\* a mutant: the last case label of the fall-through group is missing
DispatchWithoutCerberus(provider) ==
    CASE provider = "google" -> <<"_runGoogleWorkflow">>
      [] provider = "ollama" -> <<"_runOllamaWorkflow">>
      [] provider = "openai" -> <<"_runOpenAIWorkflow">>
      [] provider = "claude" -> <<"_runClaudeWorkflow">>
      [] provider = "openrouter" -> <<"_runOpenRouterWorkflow", "_runOpenAIWorkflow">>
      [] provider \in {"groq", "samba"} -> <<"_runOpenAIWorkflow">>
      [] OTHER -> <<>>

\* the switch of runWorkflowIteration: the adapter functions entered, in call order
\* (<<>>: the default case, which throws)
Dispatch(provider) ==
    CASE provider = "google" -> <<"_runGoogleWorkflow">>
      [] provider = "ollama" -> <<"_runOllamaWorkflow">>
      [] provider = "openai" -> <<"_runOpenAIWorkflow">>
      [] provider = "claude" -> <<"_runClaudeWorkflow">>
      [] provider = "openrouter" -> <<"_runOpenRouterWorkflow", "_runOpenAIWorkflow">>
      [] provider \in {"groq", "samba", "cerberus"} -> <<"_runOpenAIWorkflow">>
      [] OTHER -> <<>>

\* ProviderSettings: whether apiKey and baseURL are set
ProviderSettings == [apiKey : BOOLEAN, baseURL : BOOLEAN]

\* the check an adapter makes on entry: TRUE when it throws its configuration error
ConfigurationError(adapter, settings, envKey) ==
    CASE adapter = "_runGoogleWorkflow" -> ~envKey
      [] adapter = "_runOllamaWorkflow" -> FALSE
      [] adapter = "_runOpenAIWorkflow" -> ~settings.apiKey
      [] adapter = "_runClaudeWorkflow" -> ~settings.apiKey

\* the outbound call of an adapter: `${settings.baseURL}/...` is built whether or not
\* baseURL is set; the Google SDK has its own endpoint
OutboundCall(adapter, settings) ==
    [adapter |-> adapter,
     url |-> IF adapter = "_runGoogleWorkflow" THEN "generateContent"
             ELSE IF settings.baseURL THEN "baseURL/path" ELSE "undefined/path"]

NoCall == [provider |-> "none"]
NoBuilt == [sent |-> "none"]
NoOutcome == [kind |-> "none"]
NoDecoded == [status |-> "none"]
NoText == <<"none">>

\* a mutant: a failed call is issued once more
RetryOnFailure(error, calls) ==
    IF Len(calls) < 2
    THEN [cpc |-> "awaiting", outbound |-> Append(calls, calls[1]), outcome |-> NoOutcome]
    ELSE [cpc |-> "thrown", outbound |-> calls,
          outcome |-> [kind |-> "error", error |-> error]]

\* a failed call: the adapter throws, nothing catches it before the caller
OnFailure(error, calls) ==
    [cpc |-> "thrown", outbound |-> calls, outcome |-> [kind |-> "error", error |-> error]]

\* the run logs and the input states of the invocations explored
LogLengths == {0, MAX_LOG_ENTRIES - 1, MAX_LOG_ENTRIES, MAX_LOG_ENTRIES + 1, MaxLogLen}

RunLogOf(n) == [k \in 1..n |-> [iteration |-> k, agent |-> "Worker"]]

WithOutputFields(state) ==
    [k \in DOMAIN state \cup OutputFields |->
        IF k \in OutputFields THEN "# Final report" ELSE state[k]]

InputStates ==
    LET plain == { [InitialState(1) EXCEPT !.runLog = RunLogOf(n)] : n \in LogLengths }
    IN  plain \cup { WithOutputFields(st) : st \in plain }

\* the document of the chunk scoring example: three chunks
AlphaDoc == << <<"alpha", "beta">>, <<"gamma", "delta">>, <<"alpha", "gamma">> >>

\* a document with more than three chunks that score, equal scores apart in the
\* document, a chunk that shares no word, and a chunk of 9 characters
RankDoc ==
    << <<"alpha", "one", "two">>, <<"alpha", "gamma", "xx">>, <<"gamma", "delta", "nine">>,
       <<"alpha", "omega", "yy">>, <<"alpha", "gamma", "delta">>,
       <<"nothing", "here", "at", "all">>, <<"alpha", "abc">> >>

Docs == {<<>>, KnowledgeDoc, AlphaDoc, RankDoc}

Queries ==
    {<<"search", "for", "Protocol">>, <<"alpha">>, <<"beta">>, <<"is", "to">>,
     <<"alpha", "gamma", "delta">>}

EarlierResults == [key |-> RagResultsKey, value |-> Value(<<"earlier", "results">>)]

RagQueryArtifact(query) == [key |-> RagQueryKey, value |-> Value(query)]

ReplyArtifacts ==
    {<<>>, <<EarlierResults>>}
        \cup { <<RagQueryArtifact(q)>> : q \in Queries }
        \cup { <<EarlierResults, RagQueryArtifact(q), RagQueryArtifact(<<"is", "to">>)>> :
                 q \in Queries }

\* the states the adapter of the invocation can decode from the provider's reply
CtlReplies ==
    { [maxIterations |-> 1, currentIteration |-> 1, status |-> "running", runLog |-> <<>>,
       steps |-> <<"Step 1">>, artifacts |-> a, notes |-> Note("Waiting for RAG results")] :
        a \in ReplyArtifacts }

CtlInit ==
    /\ googleKey \in BOOLEAN
    /\ call = NoCall
    /\ cpc = "idle"
    /\ adapters = <<>>
    /\ outbound = <<>>
    /\ built = NoBuilt
    /\ decoded = NoDecoded
    /\ replyText = NoText
    /\ outcome = NoOutcome

\* the adapter builds its prompt and makes its outbound call
IssueCall(adapter, settings, currentState) ==
    /\ built' = BuildPrompt(adapter, currentState)
    /\ outbound' = Append(outbound, OutboundCall(adapter, settings))
    /\ cpc' = "awaiting"
    /\ outcome' = outcome

\* runWorkflowIteration is called: the switch, and the adapter up to its first await
Invoke(provider, settings, rag, currentState) ==
    /\ cpc = "idle"
    /\ call' = [provider |-> provider, settings |-> settings, ragContent |-> rag,
                currentState |-> currentState]
    /\ LET entered == Dispatch(provider)
           adapter == entered[Len(entered)]
       IN  /\ adapters' = entered
           /\ IF entered = <<>>
              THEN /\ cpc' = "thrown"
                   /\ outcome' = [kind |-> "error", error |-> "unsupported"]
                   /\ UNCHANGED <<built, outbound>>
              ELSE IF ConfigurationError(adapter, settings, googleKey)
              THEN /\ cpc' = "thrown"
                   /\ outcome' = [kind |-> "error", error |-> "configuration"]
                   /\ UNCHANGED <<built, outbound>>
              ELSE IF adapter = "_runGoogleWorkflow"
              THEN /\ cpc' = "limiter"
                   /\ UNCHANGED <<built, outbound, outcome>>
              ELSE IssueCall(adapter, settings, currentState)
    /\ UNCHANGED <<googleKey, decoded, replyText>>
    /\ UNCHANGED notCtlVars

\* _runGoogleWorkflow: googleRateLimiter.waitIfNeeded() has returned
RateLimitPassed ==
    /\ cpc = "limiter"
    /\ IssueCall(adapters[Len(adapters)], call.settings, call.currentState)
    /\ UNCHANGED <<googleKey, call, adapters, decoded, replyText>>
    /\ UNCHANGED notCtlVars

\* the provider answers with success and a body the adapter can decode: the decoded
\* state is RAG-spliced and returned
ResponseOk(reply) ==
    /\ cpc = "awaiting"
    /\ decoded' = reply
    /\ outcome' = [kind |-> "state", state |-> RagSplice(reply, call.ragContent)]
    /\ cpc' = "returned"
    /\ UNCHANGED <<googleKey, call, adapters, outbound, built, replyText>>
    /\ UNCHANGED notCtlVars

\* the call failed; error tells how
Failed(error) ==
    /\ cpc = "awaiting"
    /\ LET f == OnFailure(error, outbound)
       IN  /\ cpc' = f.cpc
           /\ outbound' = f.outbound
           /\ outcome' = f.outcome
    /\ UNCHANGED <<googleKey, call, adapters, built, decoded, replyText>>
    /\ UNCHANGED notCtlVars

\* !response.ok: the fetch adapters throw the API error
ResponseNotOk ==
    /\ cpc = "awaiting"
    /\ adapters[Len(adapters)] # "_runGoogleWorkflow"
    /\ Failed("api")

\* fetch, or the SDK call, rejects
CallRejects ==
    /\ cpc = "awaiting"
    /\ Failed("network")

\* the body holds no JSON state: the adapter's catch throws its parse error
ResponseUnparsable ==
    /\ cpc = "awaiting"
    /\ Failed("parse")

\* --------------------------- the Claude adapter: the state in the reply text
\* data.content[0].text is modelled as a sequence of tokens: an opening brace, a
\* closing brace, Prose for text that is no JSON, and any other token is JSON content
\* that names a step of the plan
Prose == "prose"

Texts ==
    { <<"{", "Step 1", "}">>,
      <<Prose, "{", "Step 1", "}", Prose>>,
      <<Prose, "{", "Step 1", "{", "Step 2", "}", "}">>,
      <<"{", "Step 1", "}", Prose, "{", Prose, "}">>,
      <<"{", "Step 1", "}", Prose, "}">>,
      <<"{", "Step 1", "}", Prose, "{">>,
      <<Prose>>,
      <<"{", "Step 1">>,
      <<"}", Prose, "{", "Step 1", "}">>,
      <<"{", "Step 1", "}", "{", "Step 2", "}">>,
      <<Prose, "{", Prose, "}", "{", "Step 1", "}">> }

\* responseText.match(/{[\s\S]*}/): the quantifier is greedy, the match runs from the
\* first opening brace to the last closing brace after it; <<>> stands for null
Match(text) ==
    LET opens == { k \in 1..Len(text) : text[k] = "{" }
        closes == { k \in 1..Len(text) : text[k] = "}" }
        first == CHOOSE k \in opens : \A j \in opens : k <= j
        last == CHOOSE k \in closes : \A j \in closes : j <= k
    IN  IF opens = {} \/ closes = {} THEN <<>>
        ELSE IF last < first THEN <<>>
        ELSE SubSeq(text, first, last)

RECURSIVE Balanced(_, _)
\* JSON.parse after an opening brace; depth counts the objects still open.  Prose, or a
\* token after the object has closed, is a syntax error
Balanced(tokens, depth) ==
    IF tokens = <<>> THEN depth = 0
    ELSE IF depth = 0 THEN FALSE
    ELSE IF Head(tokens) = "{" THEN Balanced(Tail(tokens), depth + 1)
    ELSE IF Head(tokens) = "}" THEN Balanced(Tail(tokens), depth - 1)
    ELSE IF Head(tokens) = Prose THEN FALSE
    ELSE Balanced(Tail(tokens), depth)

\* JSON.parse accepts the tokens as one object
JsonParses(tokens) ==
    /\ tokens # <<>>
    /\ Head(tokens) = "{"
    /\ Balanced(Tail(tokens), 1)

\* the state JSON.parse returns for an object: its content is its steps
ParseObject(object) ==
    [maxIterations |-> 1, currentIteration |-> 1, status |-> "running", runLog |-> <<>>,
     steps |-> SelectSeq(object, LAMBDA t : t \notin {"{", "}"}),
     artifacts |-> <<>>, notes |-> Note("Waiting for RAG results")]

\* _runClaudeWorkflow after response.json(): match, JSON.parse, and the catch that
\* throws the parse error for a null match and for a syntax error alike
ClaudeResponseText(text) ==
    /\ cpc = "awaiting"
    /\ adapters[Len(adapters)] = "_runClaudeWorkflow"
    /\ replyText' = text
    /\ IF JsonParses(Match(text))
       THEN /\ decoded' = ParseObject(Match(text))
            /\ outcome' = [kind |-> "state",
                           state |-> RagSplice(ParseObject(Match(text)), call.ragContent)]
            /\ cpc' = "returned"
            /\ outbound' = outbound
       ELSE LET f == OnFailure("parse", outbound)
            IN  /\ cpc' = f.cpc
                /\ outbound' = f.outbound
                /\ outcome' = f.outcome
                /\ decoded' = decoded
    /\ UNCHANGED <<googleKey, call, adapters, built>>
    /\ UNCHANGED notCtlVars

CtlNext ==
    \/ \E text \in Texts : ClaudeResponseText(text)
    \/ \E p \in Providers, st \in ProviderSettings, rag \in Docs, cs \in InputStates :
          Invoke(p, st, rag, cs)
    \/ RateLimitPassed
    \/ \E reply \in CtlReplies : ResponseOk(reply)
    \/ ResponseNotOk
    \/ CallRejects
    \/ ResponseUnparsable

\* ------------------------------------------------ testProviderConnection
\* the statuses and bodies of the probe's response that are explored
ProbeStatuses == {200, 204, 400, 401, 403, 404, 429, 500, 503}

ProbeBodies == {"models array", "no models array", "not JSON"}

\* Response.ok
Ok(status) == status >= 200 /\ status <= 299

NoTest == [pc |-> "idle"]

TestInit == test = NoTest

\* the record of an invocation: status 0 and body "none" while no response was received
TestRecord(pc, provider, settings, status, body, result) ==
    [pc |-> pc, provider |-> provider, settings |-> settings, status |-> status,
     body |-> body, result |-> result]

\* what testProviderConnection does before its probe: "true", "false" or "throws"
\* when it ends without one, "probe" when it sends it
BeforeProbe(provider, settings, envKey) ==
    CASE provider = "google" -> IF envKey THEN "true" ELSE "throws"
      [] provider = "ollama" -> "probe"
      [] provider \in {"openai", "openrouter", "groq", "samba", "cerberus"} ->
             IF settings.apiKey THEN "probe" ELSE "throws"
      [] provider = "claude" -> IF settings.apiKey THEN "probe" ELSE "throws"
      [] OTHER -> "false"

\* a mutant: the Claude probe is tested like the others, with response.ok
AfterProbeClaudeNotOk(provider, status, body) ==
    CASE provider = "ollama" ->
             IF ~Ok(status) \/ body = "not JSON" THEN "throws"
             ELSE IF body = "models array" THEN "true" ELSE "false"
      [] provider = "claude" -> IF ~Ok(status) THEN "throws" ELSE "true"
      [] OTHER -> IF ~Ok(status) \/ body = "not JSON" THEN "throws" ELSE "true"

\* what testProviderConnection does with the response of its probe
AfterProbe(provider, status, body) ==
    CASE provider = "ollama" ->
             IF ~Ok(status) \/ body = "not JSON" THEN "throws"
             ELSE IF body = "models array" THEN "true" ELSE "false"
      [] provider = "claude" -> IF status = 401 \/ status = 403 THEN "throws" ELSE "true"
      [] OTHER -> IF ~Ok(status) \/ body = "not JSON" THEN "throws" ELSE "true"

\* testProviderConnection is called: the switch, up to the await of the probe
TestStart(provider, settings) ==
    /\ test = NoTest
    /\ LET b == BeforeProbe(provider, settings, googleKey)
       IN  test' = IF b = "probe"
                   THEN TestRecord("awaiting", provider, settings, 0, "none", "none")
                   ELSE TestRecord("done", provider, settings, 0, "none", b)
    /\ UNCHANGED notTestVars

\* the probe is answered
TestResponse(status, body) ==
    /\ test # NoTest
    /\ test.pc = "awaiting"
    /\ test' = TestRecord("done", test.provider, test.settings, status, body,
                          AfterProbe(test.provider, status, body))
    /\ UNCHANGED notTestVars

\* the fetch of the probe rejects: the provider is unreachable
TestProbeRejects ==
    /\ test # NoTest
    /\ test.pc = "awaiting"
    /\ test' = [test EXCEPT !.pc = "done", !.result = "throws"]
    /\ UNCHANGED notTestVars

TestNext ==
    \/ \E p \in Providers, st \in ProviderSettings : TestStart(p, st)
    \/ \E status \in ProbeStatuses, body \in ProbeBodies : TestResponse(status, body)
    \/ TestProbeRejects

\* ------------------------------------ Loop Driver runs that reach a reminder
\* replies of a model that keeps working: the plan is kept, the status is 'running',
\* the budget is that of the run; the second has not recorded its initial plan
RemReplies ==
    { [maxIterations |-> ReminderEvery, currentIteration |-> 0, status |-> "running",
       runLog |-> <<[iteration |-> 1, agent |-> "Planner"]>>, steps |-> <<"Step 1", "Step 2">>,
       artifacts |-> <<>>, notes |-> Note("Planner has created a plan."),
       initialPlan |-> <<"Step 1", "Step 2">>],
      [maxIterations |-> ReminderEvery, currentIteration |-> 0, status |-> "running",
       runLog |-> <<[iteration |-> 1, agent |-> "Planner"]>>, steps |-> <<"Step 1", "Step 2">>,
       artifacts |-> <<>>, notes |-> Note("Planner has created a plan.")] }

RemNext ==
    \/ \E g \in GuidanceModes : RunClick(g, ReminderEvery)
    \/ PickFile
    \/ \E g \in GuidanceModes : ReaderLoad(g, ReminderEvery)
    \/ ReaderLoadInvalid
    \/ \E r \in Runs, reply \in RemReplies : LoopTurnReturns(r, reply)
    \/ \E r \in Runs : LoopTurnThrows(r)
    \/ \E r \in Runs, reply \in RemReplies : PlanTurnReturns(r, reply)
    \/ \E r \in Runs : PlanTurnThrows(r)
    \/ HandlePlanApproval
    \/ HandlePlanRejection

\* ------------------------------------------------------- specifications
vars == <<driverVars, rlVars, ctlVars, testVars>>

\* the Loop Driver and the Iteration Controller; the rate limiter is idle
Init == DriverInit /\ RLInit /\ CtlInit /\ googleKey = TRUE /\ TestInit

Next == DriverNext

Spec == Init /\ [][Next]_vars

\* the rate limiter and its concurrent callers; no workflow is run
InitRL == DriverInit /\ ragContent = <<>> /\ RLInit /\ CtlInit /\ googleKey = TRUE /\ TestInit

NextRL == RLNext

SpecRL == InitRL /\ [][NextRL]_vars

\* the rate limiter and its callers, one after the other
NextRLSeq == RLSeqNext

SpecRLSeq == InitRL /\ [][NextRLSeq]_vars

\* one invocation of runWorkflowIteration; no Loop Driver, the rate limiter is idle
InitCtl == DriverInit /\ ragContent = <<>> /\ RLInit /\ CtlInit /\ TestInit

NextCtl == CtlNext

SpecCtl == InitCtl /\ [][NextCtl]_vars

\* the Loop Driver with a budget of ReminderEvery turns and a model that keeps working
InitRem == DriverInit /\ ragContent = <<>> /\ RLInit /\ CtlInit /\ googleKey = TRUE /\ TestInit

NextRem == RemNext

SpecRem == InitRem /\ [][NextRem]_vars

\* one invocation of testProviderConnection
InitTest == DriverInit /\ ragContent = <<>> /\ RLInit /\ CtlInit /\ TestInit

NextTest == TestNext

SpecTest == InitTest /\ [][NextTest]_vars

\* ------------------------------------------------- claims on the Loop Driver
CountKey(artifacts, key) == Cardinality({ k \in 1..Len(artifacts) : artifacts[k].key = key })

NoRagQuery(s) == s = NoState \/ ~HasKey(s.artifacts, RagQueryKey)

IsSearchDoneNote(n) == n.text = SearchDoneNote(n.query).text

\* C1: the state runWorkflowIteration returns holds no 'rag_query' artifact, for every
\* reply and either ragContent; so no state the Loop Driver holds (the displayed
\* state, a loop's currentState, the state a turn returned, the plan offered for
\* approval) holds one.
C1_NoRagQueryEverHeld ==
    /\ \A reply \in Replies : NoRagQuery(RunWorkflowIteration(reply, ragContent))
    /\ NoRagQuery(workflowState)
    /\ \A r \in Runs : Alive(r) => NoRagQuery(acts[r].cur) /\ NoRagQuery(acts[r].prevOut)
    /\ offer # NoOffer => NoRagQuery(offer.planOut)

\* C1 witness: the Loop Driver holds a state spliced from a reply that asked for a search
C1_Witness ==
    /\ workflowState # NoState
    /\ workflowState.notes \in {NoDocumentNote, SearchDoneNote(<<"search", "for", "Protocol">>)}
    /\ Len(workflowState.artifacts) > 0

\* C2: a state returned for a reply with a 'rag_query' artifact, ragContent given (its
\* notes are then the search-done message), holds exactly one 'rag_results' artifact.
C2_ExactlyOneRagResults ==
    (workflowState # NoState /\ IsSearchDoneNote(workflowState.notes))
        => CountKey(workflowState.artifacts, RagResultsKey) = 1

\* C3: a run issues at most as many iteration calls as the maxIterations it was
\* created with: the call in flight, the i-th of its run, has i <= created.
C3_AtMostMaxIterationsCalls == \A r \in Runs : Alive(r) => acts[r].i <= acts[r].created

\* C4: no iteration call is in flight for a run one of whose turns returned
\* 'completed' or 'needs_clarification'.
C4_NoCallAfterTerminal == \A r \in Runs : Alive(r) => ~acts[r].terminalSeen

\* C5: when an iteration call throws, the run issues no further call and the state
\* then held is the state after the last successful turn with only status changed
\* to 'error'.
C5_ThrowKeepsLastState ==
    [][\A r \in Runs :
          (Alive(r) /\ (LoopTurnThrows(r) \/ PlanTurnThrows(r)))
              => /\ ~Alive(r)'
                 /\ workflowState' = [acts[r].cur EXCEPT !.status = "error"]]_vars

\* C6: a held state has status 'error' only if it was set by a catch block: no
\* reply makes the status 'error'.
C6_ErrorOnlyFromThrow ==
    /\ (workflowState # NoState /\ workflowState.status = "error") => wsFromCatch
    /\ \A r \in Runs : Alive(r) => acts[r].cur.status # "error"

\* C7: the state held after the i-th successful turn of a run has currentIteration = i,
\* and that never exceeds the maxIterations the run was created with.
C7_CurrentIterationIsTurnIndex ==
    [][\A r \in Runs :
          (Alive(r) /\ \E reply \in Replies :
                           LoopTurnReturns(r, reply) \/ PlanTurnReturns(r, reply))
              => /\ workflowState'.currentIteration = acts[r].i
                 /\ workflowState'.currentIteration <= acts[r].created]_vars

\* C8: the input of turn N > 1 is the state turn N-1 returned with currentIteration
\* set to N-1, also for the loop resumed by a plan approval.
C8_InputIsPreviousOutput ==
    \A r \in Runs : (Alive(r) /\ acts[r].i > 1)
        => acts[r].cur = Adopt(acts[r].prevOut, acts[r].i - 1)

\* C9: at most one iteration call is in flight.
C9_OneCallInFlight == Cardinality({ r \in Runs : Alive(r) }) <= 1

\* ------------------------------------------------ claims on the RateLimiter
\* C10: any two returns of waitIfNeeded() on the shared limiter are at least
\* minDelayMs apart, whatever the interleaving of its callers.
C10_ReturnsSpaced == prevReturn # NoReturn => lastReturn - prevReturn >= minDelayMs

\* C11: with 12 requests per minute the minimum interval is 5500 ms, and for
\* sequential callers any two consecutive returns of waitIfNeeded() are at least
\* that far apart.
C11_SequentialReturnsSpaced ==
    /\ minDelayMs = 5500
    /\ (prevReturn # NoReturn /\ lastReturn # NoReturn) => lastReturn >= prevReturn + 5500

\* C11 witness: a second call came before the interval was over, waited, and
\* returned exactly the minimum interval after the first
C11_Witness ==
    /\ prevReturn # NoReturn
    /\ lastReturn = prevReturn + minDelayMs
    /\ \A c \in Callers : waiters[c].pc = "outside"

\* ---------------------------------------- claims on the Iteration Controller
SupportedProviders ==
    {"google", "ollama", "openai", "claude", "openrouter", "groq", "samba", "cerberus"}

\* the adapter each supported provider is to be served by
MatchingAdapter(provider) ==
    CASE provider = "google" -> "_runGoogleWorkflow"
      [] provider = "ollama" -> "_runOllamaWorkflow"
      [] provider = "claude" -> "_runClaudeWorkflow"
      [] provider \in {"openai", "openrouter", "groq", "samba", "cerberus"} ->
             "_runOpenAIWorkflow"

\* C12: for a supported provider the adapter that runs is the matching one, and no
\* other adapter is entered (but the pass-through _runOpenRouterWorkflow, which only
\* calls the OpenAI-wire adapter); for any other provider the invocation throws the
\* unsupported-provider error, enters no adapter and makes no outbound call.
C12_MatchingAdapterOnly ==
    call # NoCall =>
        IF call.provider \in SupportedProviders
        THEN /\ adapters # <<>>
             /\ adapters[Len(adapters)] = MatchingAdapter(call.provider)
             /\ \A k \in 1..(Len(adapters) - 1) :
                   /\ adapters[k] = "_runOpenRouterWorkflow"
                   /\ call.provider = "openrouter"
             /\ \A k \in 1..Len(outbound) : outbound[k].adapter = MatchingAdapter(call.provider)
             /\ (outcome.kind = "error" => outcome.error # "unsupported")
        ELSE /\ adapters = <<>>
             /\ outbound = <<>>
             /\ cpc = "thrown"
             /\ outcome = [kind |-> "error", error |-> "unsupported"]

\* C12 witness: an invocation for the last provider of the fall-through group was
\* served and returned a state
C12_Witness ==
    /\ call # NoCall
    /\ call.provider = "cerberus"
    /\ cpc = "returned"
    /\ Len(outbound) = 1

\* C13: an invocation makes at most one outbound call, and exactly one when it
\* returns a state; a failed call is not made again.
C13_AtMostOneOutboundCall ==
    /\ Len(outbound) <= 1
    /\ outcome.kind = "state" => Len(outbound) = 1
    /\ (outcome.kind = "error" /\ outcome.error \in {"api", "network", "parse"})
           => Len(outbound) = 1 /\ cpc = "thrown"

\* C13 witness: the provider answered with a non-success status and the invocation
\* threw after its one call
C13_Witness ==
    /\ cpc = "thrown"
    /\ outcome = [kind |-> "error", error |-> "api"]
    /\ Len(outbound) = 1

\* what an adapter requires of its provider settings (the Google adapter: of the
\* environment): TRUE when something required is missing
RequiredMissing(adapter, settings, envKey) ==
    CASE adapter = "_runGoogleWorkflow" -> ~envKey
      [] adapter = "_runOllamaWorkflow" -> ~settings.baseURL
      [] adapter = "_runOpenAIWorkflow" -> ~settings.apiKey \/ ~settings.baseURL
      [] adapter = "_runClaudeWorkflow" -> ~settings.apiKey \/ ~settings.baseURL

\* C14: when the credential or the endpoint an adapter requires is missing, the
\* adapter throws a configuration error and no outbound call is made.
C14_ConfigurationErrorBeforeCall ==
    (call # NoCall /\ adapters # <<>>
        /\ RequiredMissing(adapters[Len(adapters)], call.settings, googleKey))
        => /\ outbound = <<>>
           /\ cpc = "thrown"
           /\ outcome = [kind |-> "error", error |-> "configuration"]

\* the reply of the invocation asked for a search
AskedForSearch == cpc = "returned" /\ HasKey(decoded.artifacts, RagQueryKey)

\* the query of the search: the value of the reply's first 'rag_query' artifact
AskedQuery == FindRagQuery(decoded.artifacts).value.text

\* C15: when the reply holds a 'rag_query' artifact and ragContent is omitted or
\* empty, the returned notes are the fixed no-document message, verbatim, in place of
\* the reply's notes, and no 'rag_results' artifact is added.
C15_NoDocumentMessage ==
    (AskedForSearch /\ call.ragContent = <<>>)
        => /\ outcome.state.notes =
                 [text |-> "You requested a search, but no knowledge document has been provided by the user. Please proceed with the task using your existing knowledge.",
                  query |-> <<>>]
           /\ CountKey(outcome.state.artifacts, RagResultsKey)
                 = CountKey(decoded.artifacts, RagResultsKey)
           /\ \A k \in 1..Len(outcome.state.artifacts) :
                 outcome.state.artifacts[k].key = RagResultsKey
                     => outcome.state.artifacts[k] = EarlierResults

\* C15 witness: a reply that asked for a search, and carried earlier results, was
\* returned with no document given
C15_Witness ==
    /\ AskedForSearch
    /\ call.ragContent = <<>>
    /\ HasKey(decoded.artifacts, RagResultsKey)
    /\ decoded.notes # outcome.state.notes

\* C16: when the reply holds a 'rag_query' artifact and ragContent is non-empty, the
\* returned notes are the search-done message naming the query, in place of the
\* reply's notes, and the value under the key 'rag_results' is the output of the
\* search of that query over ragContent.
C16_SearchDoneMessageAndResults ==
    (AskedForSearch /\ call.ragContent # <<>>)
        => /\ outcome.state.notes = SearchDoneNote(AskedQuery)
           /\ HasKey(outcome.state.artifacts, RagResultsKey)
           /\ \A k \in 1..Len(outcome.state.artifacts) :
                 outcome.state.artifacts[k].key = RagResultsKey
                     => outcome.state.artifacts[k].value
                            = ExecuteRAG(AskedQuery, call.ragContent)

\* the query shares a keyword longer than 3 characters with some chunk of the content
SharesKeyword(query, content) ==
    \E k \in 1..Len(content), j \in 1..Len(query) :
        /\ Len(query[j]) > 3
        /\ ToLowerCase(query[j]) \in ChunkWords(content[k])

\* the artifact the splice appended
AppendedArtifact == outcome.state.artifacts[Len(outcome.state.artifacts)]

\* C17: when the reply holds a 'rag_query' artifact, ragContent is non-empty and the
\* query shares a keyword longer than 3 characters with some chunk of ragContent, the
\* 'rag_results' value includes at least one chunk of ragContent.
C17_SharedKeywordGivesChunk ==
    (AskedForSearch /\ call.ragContent # <<>> /\ SharesKeyword(AskedQuery, call.ragContent))
        => /\ AppendedArtifact.key = RagResultsKey
           /\ AppendedArtifact.value.snippets # <<>>
           /\ \A i \in 1..Len(AppendedArtifact.value.snippets) :
                 \E k \in 1..Len(call.ragContent) :
                     AppendedArtifact.value.snippets[i] = call.ragContent[k]

\* C18: when the reply holds no 'rag_query' artifact, the state returned is the
\* decoded reply, unchanged in every field, with or without ragContent.
C18_NoQueryReplyUnchanged ==
    (cpc = "returned" /\ ~HasKey(decoded.artifacts, RagQueryKey))
        => outcome.state = decoded

\* C18 witness: a reply with artifacts but no 'rag_query' was returned with no
\* document given
C18_Witness ==
    /\ cpc = "returned"
    /\ decoded.artifacts = <<EarlierResults>>
    /\ call.ragContent = <<>>

\* C19: the state JSON the Prompt Builder embeds holds the last min(10, n) of the n
\* runLog entries in their order and none of the keys finalResultMarkdown,
\* finalResultSummary, resultType; the input state is as it was.
C19_PromptStatePruned ==
    built # NoBuilt =>
        LET input == call.currentState
            n == Len(input.runLog)
            m == IF n < 10 THEN n ELSE 10
            json == built.stateForPrompt
        IN  /\ Len(json.runLog) = m
            /\ \A i \in 1..m : json.runLog[i] = input.runLog[n - m + i]
            /\ DOMAIN json \cap {"finalResultMarkdown", "finalResultSummary", "resultType"} = {}
            /\ built.state = input

\* C19 witness: a prompt was built from a state with more than 10 log entries that
\* holds the three output fields
C19_Witness ==
    /\ built # NoBuilt
    /\ Len(call.currentState.runLog) > 10
    /\ {"finalResultMarkdown", "finalResultSummary", "resultType"} \subseteq DOMAIN call.currentState

\* C20: for the content "alpha beta\n\ngamma delta\n\nalpha gamma" and the query
\* "alpha" the search result includes 'alpha beta' and 'alpha gamma' and does not
\* include 'gamma delta'.
C20_AlphaChunksReturned ==
    (cpc = "returned" /\ call.ragContent = AlphaDoc
        /\ decoded.artifacts = <<RagQueryArtifact(<<"alpha">>)>>)
        => LET snippets == AppendedArtifact.value.snippets
           IN  /\ \E i \in 1..Len(snippets) : snippets[i] = <<"alpha", "beta">>
               /\ \E i \in 1..Len(snippets) : snippets[i] = <<"alpha", "gamma">>
               /\ ~\E i \in 1..Len(snippets) : snippets[i] = <<"gamma", "delta">>

\* ------------------------------------- claims on testProviderConnection
\* C21: for claude a 401 or 403 throws and every other status returns true; for the
\* bearer-token providers a non-2xx response or a missing API key throws; for ollama
\* a non-2xx response throws and the test succeeds only with an array 'models' field;
\* true is never returned for a probe rejected with 401 or 403.
C21_ProbeOutcome ==
    (test # NoTest /\ test.pc = "done") =>
        LET answered == test.status # 0
            rejected == test.status = 401 \/ test.status = 403
            success == test.status >= 200 /\ test.status < 300
        IN  /\ (test.provider = "claude" /\ answered)
                   => test.result = (IF rejected THEN "throws" ELSE "true")
            /\ test.provider \in {"openai", "openrouter", "groq", "samba", "cerberus"}
                   => /\ ~test.settings.apiKey => test.result = "throws" /\ ~answered
                      /\ (answered /\ ~success) => test.result = "throws"
            /\ test.provider = "ollama"
                   => /\ (answered /\ ~success) => test.result = "throws"
                      /\ test.result = "true" => success /\ test.body = "models array"
            /\ (answered /\ rejected) => test.result # "true"

\* C21 witness: the Claude probe was answered 400 and the test returned true
C21_Witness ==
    /\ test # NoTest
    /\ test.pc = "done"
    /\ test.provider = "claude"
    /\ test.status = 400
    /\ test.result = "true"

\* ------------------------------------------ further claims on the Loop Driver
IsPrefix(a, b) == Len(a) <= Len(b) /\ SubSeq(b, 1, Len(a)) = a

\* C22: runLog is append-only over the states of a run: the runLog of the state a
\* turn was given is a prefix of the runLog of the state held after the turn.
C22_RunLogAppendOnly ==
    [][\A r \in Runs :
          (Alive(r) /\ \E reply \in Replies :
                           LoopTurnReturns(r, reply) \/ PlanTurnReturns(r, reply))
              => IsPrefix(acts[r].cur.runLog, workflowState'.runLog)]_vars

\* ---------------------------------------- further claims on the RateLimiter
\* C23: every exit of waitIfNeeded() records the current time as lastCallTime, with
\* or without a wait; reset() clears it; a call that finds it cleared returns without
\* delay, and a call that comes less than minDelayMs after the recorded time is
\* delayed until minDelayMs after it.
C23_RecordsOnExitAndReset ==
    [][/\ \A c \in Callers :
             /\ (WaitIfNeeded(c) /\ waiters'[c].pc = "outside") => lastCallTime' = clock
             /\ DelayElapsed(c) => lastCallTime' = clock /\ clock >= waiters[c].due
             /\ (WaitIfNeeded(c) /\ lastCallTime = 0)
                    => waiters'[c].pc = "outside" /\ lastReturn' = clock
             /\ (WaitIfNeeded(c) /\ lastCallTime # 0 /\ clock < lastCallTime + minDelayMs)
                    => waiters'[c] = [pc |-> "delay", due |-> lastCallTime + minDelayMs]
       /\ Reset => lastCallTime' = 0]_vars

\* C23 witness: reset() was called after a return, while a later call was waiting
C23_Witness ==
    /\ lastCallTime = 0
    /\ \E c \in Callers : waiters[c].pc = "delay"

\* ------------------------------------------ claims on the prompt of a turn
\* C24: the prompt of a turn holds the context reminder iff its input state has
\* currentIteration > 0, currentIteration mod 5 = 0 and a non-empty initialPlan; so in
\* a run of the Loop Driver the reminder is sent on the turns of index i with i > 1 and
\* (i - 1) mod 5 = 0 while initialPlan is non-empty, and on no other turn.
C24_ReminderOnEveryFifthTurn ==
    \A r \in Runs : Alive(r) =>
        /\ ContextReminder(acts[r].cur)
               <=> /\ acts[r].cur.currentIteration > 0
                   /\ acts[r].cur.currentIteration % 5 = 0
                   /\ "initialPlan" \in DOMAIN acts[r].cur
                   /\ acts[r].cur.initialPlan # <<>>
        /\ ContextReminder(acts[r].cur)
               <=> /\ acts[r].i > 1
                   /\ (acts[r].i - 1) % 5 = 0
                   /\ HasInitialPlan(acts[r].cur)

\* C25: the request of the Claude adapter embeds the same pruned state as the
\* Prompt Builder: at most 10 runLog entries, these being the last ones of the input,
\* and none of finalResultMarkdown, finalResultSummary, resultType.
C25_ClaudeEmbedsPrunedState ==
    (built # NoBuilt /\ adapters[Len(adapters)] = "_runClaudeWorkflow") =>
        /\ built.sent = PrepareStateForPrompt(call.currentState).stateForPrompt
        /\ Len(built.sent.runLog) <= 10
        /\ DOMAIN built.sent \cap {"finalResultMarkdown", "finalResultSummary", "resultType"} = {}

\* ------------------------------------------------ claims on the RAG search
\* C26: the search discards exactly the chunks whose trimmed length is shorter than
\* 10: no chunk of 9 characters or fewer is returned, and a chunk of 10 characters or
\* more stays a candidate, so that it is returned when it scores and at most three
\* chunks of 10 characters or more score.
C26_ChunksShorterThanTenDropped ==
    (AskedForSearch /\ call.ragContent # <<>> /\ QueryWords(AskedQuery) # {})
        => LET rag == call.ragContent
               snippets == AppendedArtifact.value.snippets
               candidates == { k \in 1..Len(rag) :
                                  JoinedLength(rag[k]) >= 10 /\ Score(rag[k], AskedQuery) >= 1 }
           IN  /\ \A i \in 1..Len(snippets) : JoinedLength(snippets[i]) >= 10
               /\ Cardinality(candidates) <= 3
                      => \A k \in candidates :
                             \E i \in 1..Len(snippets) : snippets[i] = rag[k]

\* the index of a chunk in the document (the chunks of a document differ)
IndexIn(content, chunk) == CHOOSE k \in 1..Len(content) : content[k] = chunk

ContainsObject(text) ==
    \E a \in 1..Len(text), b \in 1..Len(text) : a <= b /\ JsonParses(SubSeq(text, a, b))

\* the first balanced JSON object of the text
FirstObject(text) ==
    LET objects == { ab \in (1..Len(text)) \X (1..Len(text)) :
                        ab[1] <= ab[2] /\ JsonParses(SubSeq(text, ab[1], ab[2])) }
        first == CHOOSE ab \in objects : \A o \in objects : ab[1] <= o[1]
    IN  SubSeq(text, first[1], first[2])

\* C28: for a reply text that holds a JSON state object surrounded by prose the
\* Claude adapter returns the first balanced object of the text as the state, also
\* when the prose after it holds further braces; it raises the parse error only when
\* the text holds no balanced JSON object.
C28_FirstBalancedObjectReturned ==
    (replyText # NoText /\ cpc \in {"returned", "thrown"})
        => /\ ContainsObject(replyText)
                  => /\ outcome.kind = "state"
                     /\ decoded = ParseObject(FirstObject(replyText))
           /\ outcome.kind = "error" => ~ContainsObject(replyText)

\* ------------------------------------- claims on the runs of the Loop Driver
\* C29: in human-guided mode the run issues one planning call and no further call
\* until the plan is approved: the planning turn leaves no call of the run in flight,
\* approval is offered only for a non-empty steps list and resumes the loop at index
\* 2 from the planner state, and a rejection issues no call.
C29_ApprovalResumesFromPlannerState ==
    [][/\ \A r \in Runs :
             (/\ Alive(r)
              /\ acts[r].kind = "plan"
              /\ PlanTurnThrows(r) \/ \E reply \in Replies : PlanTurnReturns(r, reply))
                 => ~Alive(r)'
       /\ HandlePlanApproval
             => /\ Len(workflowState.steps) > 0
                /\ \A r \in Runs :
                       (r = offer.run /\ Alive(r)')
                           => /\ acts'[r].i = 2
                              /\ acts'[r].cur = Adopt(offer.planOut, 1)
       /\ HandlePlanRejection => acts' = acts]_vars

\* C30: every path of a run ends with isRunning false: once isRunning is false and no
\* approval is pending, no iteration call is in flight; and a run that ends because
\* its budget is exhausted, without a terminal status, leaves a state with status
\* 'running' and currentIteration equal to the loop bound the run was created with.
C30_RunStopsAndKeepsRunning ==
    [][/\ (~isRunning' /\ ~ModalOpen') => \A r \in Runs : ~Alive(r)'
       /\ \A r \in Runs :
             (/\ Alive(r)
              /\ acts[r].kind = "loop"
              /\ \E reply \in Replies : LoopTurnReturns(r, reply)
              /\ ~Alive(r)'
              /\ ~IsTerminal(workflowState'.status))
                 => /\ workflowState'.status = "running"
                    /\ workflowState'.currentIteration = acts[r].created]_vars

====
